---- MODULE Spec2Model ----
(***************************************************************************)
(* Shape-and-configuration model of timm/models/mambaout.py.               *)
(*                                                                         *)
(* Tensors are modelled by their shapes (and, inside one gated block, by   *)
(* the channel ranges and the symbolic residual expression the forward     *)
(* pass builds).  Python floats that are ratios (expansion_ratio,          *)
(* conv_ratio, drop-path rates) are exact rationals <<num, den>>, den > 0. *)
(* Constructors and forward passes either return a value or raise; a       *)
(* raise is a record with ok = FALSE naming the exception.                 *)
(***************************************************************************)
EXTENDS Integers, Sequences, FiniteSets, TLC

VARIABLES obj, out, training

vars == <<obj, out, training>>

(***************************************************************************)
(* Bounds of the model and the argument values the calls are tried with.   *)
(***************************************************************************)
MaxDim == 4
MaxDepth == 2
MaxStages == 3
MaxBatch == 2

Default_expansion_ratio == <<8, 3>>
Default_conv_ratio == <<1, 1>>
Default_kernel_size == 7
Default_in_chans == 3

Dims == 1 .. MaxDim
NetDims == {1, 8, 16}
ExpansionRatios == {<<1, 2>>, <<1, 1>>, <<8, 3>>}
ConvRatios == {<<1, 100>>, <<1, 2>>, <<1, 1>>, <<3, 1>>}
KernelSizes == {3, 4, 7}
DropRates == {<<0, 1>>, <<3, 10>>}
LsInitValues == {"None", "1e-6"}
Sides == {8, 12}
NetInputs == {<<16, 16>>, <<32, 32>>, <<20, 12>>}
NoneValue == "None"

(***************************************************************************)
(* Rationals.                                                              *)
(***************************************************************************)
RatLeq(a, b) == a[1] * b[2] <= b[1] * a[2]
RatEq(a, b) == a[1] * b[2] = b[1] * a[2]
RatPos(a) == a[1] > 0
RatAdd(a, b) == <<a[1] * b[2] + b[1] * a[2], a[2] * b[2]>>
RatSub(a, b) == <<a[1] * b[2] - b[1] * a[2], a[2] * b[2]>>
RatMulInt(a, k) == <<a[1] * k, a[2]>>
RatDivInt(a, k) == <<a[1], a[2] * k>>

\* Python int(ratio * n): truncation toward zero.
IntOfProduct(ratio, n) ==
    LET p == ratio[1] * n
    IN  IF p >= 0 THEN p \div ratio[2] ELSE -((-p) \div ratio[2])

\* Python round(ratio * n): nearest integer, ties to even (ratio * n >= 0).
RoundOfProduct(ratio, n) ==
    LET p == ratio[1] * n
        q == p \div ratio[2]
        r2 == 2 * (p % ratio[2])
    IN  IF r2 < ratio[2] THEN q
        ELSE IF r2 > ratio[2] THEN q + 1
        ELSE IF q % 2 = 0 THEN q ELSE q + 1

Raise(e) == [ok |-> FALSE, err |-> e]
Return(v) == [ok |-> TRUE, val |-> v]

\* Sequencing of statements: r is evaluated once; if it raised, the raise
\* propagates, otherwise the rest F runs on its value.
Then(r, F(_)) == CHOOSE y \in {IF x.ok THEN F(x.val) ELSE x : x \in {r}} : TRUE

RECURSIVE SumSeq(_)
SumSeq(s) == IF s = <<>> THEN 0 ELSE s[1] + SumSeq(Tail(s))

(***************************************************************************)
(* torch primitives, by their shape contracts.                             *)
(***************************************************************************)
\* nn.Conv2d(in, out, kernel_size, stride, padding, groups)
Conv2dInit(in_chs, out_chs, k, stride, padding, groups) ==
    IF groups <= 0 THEN Raise("ValueError")
    ELSE IF in_chs % groups # 0 \/ out_chs % groups # 0 THEN Raise("ValueError")
    ELSE Return([in_chs |-> in_chs, out_chs |-> out_chs, k |-> k,
                 stride |-> stride, padding |-> padding, groups |-> groups])

ConvOut(n, conv) == ((n + 2 * conv.padding - conv.k) \div conv.stride) + 1

\* conv(x) on a channel-first shape <<B, C, H, W>>
Conv2dForward(conv, s) ==
    IF s[2] # conv.in_chs \/ conv.out_chs < conv.groups
         \/ s[3] + 2 * conv.padding < conv.k \/ s[4] + 2 * conv.padding < conv.k
    THEN Raise("RuntimeError")
    ELSE Return(<<s[1], conv.out_chs, ConvOut(s[3], conv), ConvOut(s[4], conv)>>)

\* x.permute(0, 3, 1, 2) and x.permute(0, 2, 3, 1) on shapes
ToChannelFirst(s) == <<s[1], s[4], s[2], s[3]>>
ToChannelLast(s) == <<s[1], s[3], s[4], s[2]>>

\* norm_layer(dim)(x) and nn.Linear(in, out)(x) on a channel-last shape
NormForward(dim, s) == IF s[4] = dim THEN Return(s) ELSE Raise("RuntimeError")
LinearForward(in_f, out_f, s) ==
    IF s[4] = in_f THEN Return(<<s[1], s[2], s[3], out_f>>) ELSE Raise("RuntimeError")

\* torch.split(x, sizes, dim=-1): the half-open channel ranges of the pieces
RECURSIVE SplitRanges(_, _)
SplitRanges(sizes, lo) ==
    IF sizes = <<>> THEN <<>>
    ELSE <<<<lo, lo + sizes[1]>>>> \o SplitRanges(Tail(sizes), lo + sizes[1])

TorchSplit(channels, sizes) ==
    IF (\E k \in 1 .. Len(sizes) : sizes[k] < 0) \/ SumSeq(sizes) # channels
    THEN Raise("RuntimeError")
    ELSE Return(SplitRanges(sizes, 0))

RangeLen(r) == r[2] - r[1]
WithChannels(s, c) == <<s[1], s[2], s[3], c>>

\* torch.cat((a, b), dim=-1) on channel-last shapes
TorchCat(a, b) ==
    IF <<a[1], a[2], a[3]>> = <<b[1], b[2], b[3]>>
    THEN Return(WithChannels(a, a[4] + b[4]))
    ELSE Raise("RuntimeError")

\* shape of a * b and a + b (broadcasting)
BroadcastDim(m, n) == IF m = n THEN m ELSE IF m = 1 THEN n ELSE m
Broadcast(a, b) ==
    IF \A k \in 1 .. 4 : a[k] = b[k] \/ a[k] = 1 \/ b[k] = 1
    THEN Return([k \in 1 .. 4 |-> BroadcastDim(a[k], b[k])])
    ELSE Raise("RuntimeError")

(***************************************************************************)
(* DropPath and LayerScale live in timm.models.layers and                  *)
(* .vision_transformer; they are modelled by what the block relies on.     *)
(***************************************************************************)
\* DropPath(p)(x): identity unless training with p > 0; then the whole
\* sample is either zeroed or kept and scaled by 1 / (1 - p).
DropPathForward(p, train, mask, e) ==
    IF ~train \/ ~RatPos(p) THEN e
    ELSE IF mask = "drop" THEN <<"zeroed", e>>
    ELSE <<"scaled_by_inv_keep_prob", e>>

(***************************************************************************)
(* GatedConvBlock                                                          *)
(***************************************************************************)
BlockHidden_Rounded(expansion_ratio, dim) == RoundOfProduct(expansion_ratio, dim)

\* hidden = int(expansion_ratio * dim)
BlockHidden(expansion_ratio, dim) == IntOfProduct(expansion_ratio, dim)

BlockConvChannels_OfHidden(conv_ratio, dim) ==
    IntOfProduct(conv_ratio, IntOfProduct(Default_expansion_ratio, dim))

\* conv_channels = int(conv_ratio * dim)
BlockConvChannels(conv_ratio, dim) == IntOfProduct(conv_ratio, dim)

SplitIndices_ConvBeforeIdentity(hidden, conv_channels) ==
    <<hidden, conv_channels, hidden - conv_channels>>

\* self.split_indices = (hidden, hidden - conv_channels, conv_channels)
SplitIndices(hidden, conv_channels) ==
    <<hidden, hidden - conv_channels, conv_channels>>

\* self.drop_path = DropPath(drop_path) if drop_path > 0. else nn.Identity()
DropPathLayer(drop_path) ==
    IF RatPos(drop_path) THEN [kind |-> "DropPath", p |-> drop_path]
    ELSE [kind |-> "Identity"]

\* self.ls = LayerScale(dim) if ls_init_value is not None else nn.Identity()
LayerScaleLayer(ls_init_value) ==
    IF ls_init_value # NoneValue THEN "LayerScale" ELSE "Identity"

GatedConvBlockInit(dim, expansion_ratio, kernel_size, conv_ratio, ls_init_value, drop_path) ==
    LET hidden == BlockHidden(expansion_ratio, dim)
        conv_channels == BlockConvChannels(conv_ratio, dim)
    IN  Then(Conv2dInit(conv_channels, conv_channels, kernel_size, 1,
                        kernel_size \div 2, conv_channels), LAMBDA conv :
        Return([dim |-> dim,
                hidden |-> hidden,
                fc1 |-> [in_f |-> dim, out_f |-> hidden * 2],
                conv_channels |-> conv_channels,
                split_indices |-> SplitIndices(hidden, conv_channels),
                conv |-> conv,
                fc2 |-> [in_f |-> hidden, out_f |-> dim],
                ls |-> LayerScaleLayer(ls_init_value),
                drop_path |-> DropPathLayer(drop_path)]))

BlockResidual_DropsWhenNotTraining(blk, train, mask, branch, shortcut) ==
    LET scaled == IF blk.ls = "LayerScale" THEN <<"ls", branch>> ELSE branch
        dropped == IF blk.drop_path.kind = "DropPath"
                   THEN DropPathForward(blk.drop_path.p, TRUE, mask, scaled)
                   ELSE scaled
    IN  <<"add", dropped, shortcut>>

\* x = self.ls(x); x = self.drop_path(x); return x + shortcut
BlockResidual(blk, train, mask, branch, shortcut) ==
    LET scaled == IF blk.ls = "LayerScale" THEN <<"ls", branch>> ELSE branch
        dropped == IF blk.drop_path.kind = "DropPath"
                   THEN DropPathForward(blk.drop_path.p, train, mask, scaled)
                   ELSE scaled
    IN  <<"add", dropped, shortcut>>

\* x = self.fc2(self.act(g) * torch.cat((i, c), dim=-1))
BlockGated(g, i, c) == <<"mul", <<"act", g>>, <<"cat", i, c>>>>

\* forward(x) on a channel-last shape s; "x" is the symbolic input value
GatedConvBlockForward(blk, s, train, mask) ==
    Then(NormForward(blk.dim, s), LAMBDA n :
    Then(LinearForward(blk.fc1.in_f, blk.fc1.out_f, n), LAMBDA f1 :
    Then(TorchSplit(f1[4], blk.split_indices), LAMBDA sp :
    Then(Conv2dForward(blk.conv, ToChannelFirst(WithChannels(f1, RangeLen(sp[3])))),
         LAMBDA cv :
    Then(TorchCat(WithChannels(f1, RangeLen(sp[2])), ToChannelLast(cv)), LAMBDA ct :
    Then(Broadcast(WithChannels(f1, RangeLen(sp[1])), ct), LAMBDA m :
    Then(LinearForward(blk.fc2.in_f, blk.fc2.out_f, m), LAMBDA f2 :
    Then(Broadcast(f2, s), LAMBDA r :
        Return([shape |-> r,
                fc1_out |-> f1[4],
                g |-> sp[1], i |-> sp[2], c |-> sp[3],
                cat |-> ct[4],
                fc2_in |-> m[4],
                gated |-> BlockGated("g", "i", <<"conv", "c">>),
                expr |-> BlockResidual(blk, train, mask,
                            <<"fc2", BlockGated("g", "i", <<"conv", "c">>)>>, "x")])
    ))))))))

(***************************************************************************)
(* State: the module object last constructed (or the exception its         *)
(* constructor raised), its nn.Module training flag, and the result of the *)
(* last forward call on it.                                                *)
(***************************************************************************)
NoObject == [kind |-> "none"]
NoOutput == [kind |-> "none"]

Constructed(kind, call, r) ==
    IF r.ok THEN [kind |-> kind, call |-> call, self |-> r.val]
    ELSE [kind |-> "raised", of |-> kind, call |-> call, err |-> r.err]

Init ==
    /\ obj = NoObject
    /\ out = NoOutput
    /\ training = TRUE

\* GatedConvBlock(dim, expansion_ratio, kernel_size, conv_ratio, ls_init_value, drop_path=...)
NewBlock ==
    /\ obj = NoObject
    /\ \E dim \in Dims, er \in ExpansionRatios, ks \in KernelSizes, cr \in ConvRatios,
          ls \in LsInitValues, dp \in DropRates :
        /\ obj' = Constructed("block",
                    [dim |-> dim, expansion_ratio |-> er, kernel_size |-> ks,
                     conv_ratio |-> cr, ls_init_value |-> ls, drop_path |-> dp],
                    GatedConvBlockInit(dim, er, ks, cr, ls, dp))
        /\ out' = NoOutput
        /\ training' = TRUE

\* module.train(mode) / module.eval()
SetTraining ==
    /\ obj.kind \in {"block", "stage", "net"}
    /\ out = NoOutput
    /\ \E mode \in BOOLEAN :
        /\ training' = mode
        /\ out' = NoOutput
        /\ UNCHANGED obj

\* block(x) for x of shape (B, H, W, C)
BlockForward ==
    /\ obj.kind = "block"
    /\ out = NoOutput
    /\ \E b \in 1 .. MaxBatch, h \in Sides, w \in Sides, ch \in Dims, mask \in {"keep", "drop"} :
        /\ out' = [kind |-> "block", x |-> <<b, h, w, ch>>, mask |-> mask,
                   res |-> GatedConvBlockForward(obj.self, <<b, h, w, ch>>, training, mask)]
        /\ UNCHANGED <<obj, training>>

NextBlock == NewBlock \/ SetTraining \/ BlockForward

SpecBlock == Init /\ [][NextBlock]_vars

(***************************************************************************)
(* Stem and Downsample                                                     *)
(***************************************************************************)
StemInit(in_chs, out_chs) ==
    Then(Conv2dInit(in_chs, out_chs \div 2, 3, 2, 1, 1), LAMBDA conv1 :
    Then(Conv2dInit(out_chs \div 2, out_chs, 3, 2, 1, 1), LAMBDA conv2 :
        Return([conv1 |-> conv1, norm1 |-> out_chs \div 2,
                conv2 |-> conv2, norm2 |-> out_chs])))

\* Stem.forward on a channel-first image shape <<B, C, H, W>>
StemForward(stem, s) ==
    Then(Conv2dForward(stem.conv1, s), LAMBDA c1 :
    Then(NormForward(stem.norm1, ToChannelLast(c1)), LAMBDA n1 :
    Then(Conv2dForward(stem.conv2, ToChannelFirst(n1)), LAMBDA c2 :
        NormForward(stem.norm2, ToChannelLast(c2)))))

DownsampleInit(in_chs, out_chs) ==
    Then(Conv2dInit(in_chs, out_chs, 3, 2, 1, 1), LAMBDA conv :
        Return([kind |-> "Downsample", conv |-> conv, norm |-> out_chs]))

\* Downsample.forward on a channel-last shape
DownsampleForward(ds, s) ==
    Then(Conv2dForward(ds.conv, ToChannelFirst(s)), LAMBDA c :
        NormForward(ds.norm, ToChannelLast(c)))

(***************************************************************************)
(* MambaOutStage.  An Optional[int] argument is the empty set (None) or a  *)
(* singleton; a drop_path argument is a float or a list of floats.         *)
(***************************************************************************)
None == {}
Some(v) == {v}
TheValue(opt) == CHOOSE v \in opt : TRUE

Float(r) == [list |-> FALSE, value |-> r]
List(rs) == [list |-> TRUE, items |-> rs]

\* dim_out = dim_out or dim
DimOutOrDim(dim_out, dim) ==
    IF dim_out = None \/ dim_out = Some(0) THEN dim ELSE TheValue(dim_out)

StageDownsampleLayer_Unchecked(downsample, dim, dim_out) ==
    IF downsample THEN DownsampleInit(dim, dim_out)
    ELSE Return([kind |-> "Identity"])

\* if downsample: Downsample(dim, dim_out) else: assert dim == dim_out; nn.Identity()
StageDownsampleLayer(downsample, dim, dim_out) ==
    IF downsample THEN DownsampleInit(dim, dim_out)
    ELSE IF dim # dim_out THEN Raise("AssertionError")
    ELSE Return([kind |-> "Identity"])

\* drop_path[j] if isinstance(drop_path, (list, tuple)) else drop_path  (j from 0)
BlockDropPath(drop_path, j) ==
    IF drop_path.list
    THEN IF j + 1 <= Len(drop_path.items) THEN Return(drop_path.items[j + 1])
         ELSE Raise("IndexError")
    ELSE Return(drop_path.value)

\* the list comprehension building self.blocks, blocks j .. depth - 1
RECURSIVE StageBlocks(_, _, _, _, _, _, _, _)
StageBlocks(j, depth, dim_out, expansion_ratio, kernel_size, conv_ratio, ls_init_value, drop_path) ==
    IF j >= depth THEN Return(<<>>)
    ELSE
    Then(BlockDropPath(drop_path, j), LAMBDA dp :
    Then(GatedConvBlockInit(dim_out, expansion_ratio, kernel_size, conv_ratio,
                            ls_init_value, dp), LAMBDA b :
    Then(StageBlocks(j + 1, depth, dim_out, expansion_ratio, kernel_size,
                     conv_ratio, ls_init_value, drop_path), LAMBDA rest :
        Return(<<b>> \o rest))))

MambaOutStageInit(dim, dim_out_arg, depth, expansion_ratio, kernel_size, conv_ratio, downsample, ls_init_value, drop_path) ==
    LET dim_out == DimOutOrDim(dim_out_arg, dim)
    IN  Then(StageDownsampleLayer(downsample, dim, dim_out), LAMBDA ds :
        Then(StageBlocks(0, depth, dim_out, expansion_ratio, kernel_size,
                         conv_ratio, ls_init_value, drop_path), LAMBDA blocks :
            Return([dim |-> dim, dim_out |-> dim_out,
                    grad_checkpointing |-> FALSE,
                    downsample |-> ds, blocks |-> blocks])))

\* x = self.blocks(x): blocks k .. Len(blocks) applied in order to shape s
RECURSIVE BlocksForward(_, _, _, _, _)
BlocksForward(blocks, k, s, train, mask) ==
    IF k > Len(blocks) THEN Return(s)
    ELSE Then(GatedConvBlockForward(blocks[k], s, train, mask), LAMBDA r :
             BlocksForward(blocks, k + 1, r.shape, train, mask))

\* x = self.downsample(x)
StageDownsampleForward(stage, s) ==
    IF stage.downsample.kind = "Downsample"
    THEN DownsampleForward(stage.downsample, s)
    ELSE Return(s)

\* MambaOutStage.forward; the value keeps the shape after the downsample step
MambaOutStageForward(stage, s, train, mask) ==
    Then(StageDownsampleForward(stage, s), LAMBDA d :
    Then(BlocksForward(stage.blocks, 1, d, train, mask), LAMBDA b :
        Return([after_downsample |-> d, shape |-> b])))

\* MambaOutStage(dim, dim_out, depth, expansion_ratio, kernel_size, conv_ratio, downsample, ...)
NewStage ==
    /\ obj = NoObject
    /\ \E dim \in Dims, dim_out \in {None} \cup {Some(d) : d \in Dims},
       depth \in 1 .. MaxDepth, er \in {Default_expansion_ratio},
       ks \in {4, Default_kernel_size}, cr \in ConvRatios, downsample \in BOOLEAN,
       dp \in DropRates :
        /\ obj' = Constructed("stage",
                    [dim |-> dim, dim_out |-> dim_out, depth |-> depth,
                     expansion_ratio |-> er, kernel_size |-> ks, conv_ratio |-> cr,
                     downsample |-> downsample, drop_path |-> Float(dp)],
                    MambaOutStageInit(dim, dim_out, depth, er, ks, cr, downsample,
                                      NoneValue, Float(dp)))
        /\ out' = NoOutput
        /\ training' = TRUE

\* stage(x) for x of shape (B, H, W, C)
StageForward ==
    /\ obj.kind = "stage"
    /\ out = NoOutput
    /\ \E b \in {1}, h \in Sides, w \in Sides, ch \in Dims :
        /\ out' = [kind |-> "stage", x |-> <<b, h, w, ch>>,
                   res |-> MambaOutStageForward(obj.self, <<b, h, w, ch>>, training, "keep")]
        /\ UNCHANGED <<obj, training>>

NextStage == NewStage \/ SetTraining \/ StageForward

SpecStage == Init /\ [][NextStage]_vars

(***************************************************************************)
(* MambaOut                                                                *)
(***************************************************************************)
\* torch.linspace(start, end, steps), entries 1 .. steps
Linspace(start, end, steps) ==
    [k \in 1 .. steps |->
        IF steps = 1 THEN start
        ELSE LET step == RatDivInt(RatSub(end, start), steps - 1)
             IN  IF k - 1 < steps \div 2
                 THEN RatAdd(start, RatMulInt(step, k - 1))
                 ELSE RatSub(end, RatMulInt(step, steps - k))]

\* tensor.split(sizes): consecutive pieces of the given lengths
RECURSIVE SplitBySizes(_, _)
SplitBySizes(flat, sizes) ==
    IF sizes = <<>> THEN <<>>
    ELSE <<SubSeq(flat, 1, sizes[1])>>
         \o SplitBySizes(SubSeq(flat, sizes[1] + 1, Len(flat)), Tail(sizes))

DpRates_EveryStageFromStart(drop_path_rate, depths) ==
    LET flat == Linspace(<<0, 1>>, drop_path_rate, SumSeq(depths))
    IN  [i \in 1 .. Len(depths) |-> SubSeq(flat, 1, depths[i])]

\* dp_rates = [x.tolist() for x in torch.linspace(0, drop_path_rate, sum(depths)).split(depths)]
DpRates(drop_path_rate, depths) ==
    SplitBySizes(Linspace(<<0, 1>>, drop_path_rate, SumSeq(depths)), depths)

StageHasDownsample_Always(i) == TRUE
StageHasDownsample_Never(i) == FALSE

\* downsample=i > 0  (i from 0)
StageHasDownsample(i) == i > 0

\* the loop over range(num_stage), stages i .. num_stage - 1 (i from 0);
\* every argument MambaOutStage is not given keeps its default
RECURSIVE NetStages(_, _, _, _, _, _, _, _)
NetStages(i, prev_dim, depths, dims, kernel_size, conv_ratio, ls_init_value, dp_rates) ==
    IF i >= Len(depths) THEN Return(<<>>)
    ELSE IF i + 1 > Len(dims) THEN Raise("IndexError")
    ELSE
    LET dim == dims[i + 1]
    IN  Then(MambaOutStageInit(prev_dim, Some(dim), depths[i + 1],
                               Default_expansion_ratio, kernel_size, conv_ratio,
                               StageHasDownsample(i), ls_init_value,
                               List(dp_rates[i + 1])), LAMBDA stage :
        Then(NetStages(i + 1, dim, depths, dims, kernel_size, conv_ratio,
                       ls_init_value, dp_rates), LAMBDA rest :
            Return(<<stage>> \o rest)))

\* MambaOut.__init__; kwargs collects the keyword arguments it does not name
MambaOutInit(in_chans, depths, dims, conv_ratio, kernel_size, ls_init_value, drop_path_rate, kwargs) ==
    Then(StemInit(in_chans, dims[1]), LAMBDA stem :
    Then(Return(DpRates(drop_path_rate, depths)), LAMBDA dp_rates :
    Then(NetStages(0, dims[1], depths, dims, kernel_size, conv_ratio,
                   ls_init_value, dp_rates), LAMBDA stages :
        Return([num_stage |-> Len(depths),
                stem |-> stem,
                dp_rates |-> dp_rates,
                stages |-> stages,
                norm |-> dims[Len(depths)]]))))

\* for s in self.stages: x = s(x); the shapes after each stage, from stage k on
RECURSIVE StagesForward(_, _, _, _, _)
StagesForward(stages, k, s, train, mask) ==
    IF k > Len(stages) THEN Return(<<>>)
    ELSE
    Then(MambaOutStageForward(stages[k], s, train, mask), LAMBDA r :
    Then(StagesForward(stages, k + 1, r.shape, train, mask), LAMBDA rest :
        Return(<<r.shape>> \o rest)))

\* MambaOut.forward_features on an image shape <<B, C, H, W>>; the value keeps
\* the shape after the stem and after every stage beside the returned shape
ForwardFeaturesOf(model, s, train, mask) ==
    Then(StemForward(model.stem, s), LAMBDA st :
    Then(StagesForward(model.stages, 1, st, train, mask), LAMBDA sg :
        Return([after_stem |-> st, after_stage |-> sg,
                shape |-> IF sg = <<>> THEN st ELSE sg[Len(sg)]])))

\* MambaOut(depths=..., dims=..., conv_ratio=..., kernel_size=..., drop_path_rate=..., **kwargs)
NewMambaOut ==
    /\ obj = NoObject
    /\ \E n \in 1 .. MaxStages, cr \in {<<1, 100>>, Default_conv_ratio},
       ks \in {Default_kernel_size}, dpr \in DropRates, er \in {None, Some(<<1, 1>>)} :
      \E depths \in [1 .. n -> 1 .. MaxDepth], dims \in [1 .. n -> NetDims] :
        /\ obj' = Constructed("net",
                    [in_chans |-> Default_in_chans, depths |-> depths, dims |-> dims,
                     conv_ratio |-> cr, kernel_size |-> ks, drop_path_rate |-> dpr,
                     expansion_ratio |-> er],
                    MambaOutInit(Default_in_chans, depths, dims, cr, ks, NoneValue, dpr,
                                 [expansion_ratio |-> er]))
        /\ out' = NoOutput
        /\ training' = TRUE

\* model.forward_features(x) for x of shape (B, in_chans, H, W)
ForwardFeatures ==
    /\ obj.kind = "net"
    /\ out = NoOutput
    /\ \E b \in {1}, hw \in NetInputs :
      LET h == hw[1]
          w == hw[2]
      IN
        /\ out' = [kind |-> "net", x |-> <<b, Default_in_chans, h, w>>,
                   res |-> ForwardFeaturesOf(obj.self, <<b, Default_in_chans, h, w>>,
                                             training, "keep")]
        /\ UNCHANGED <<obj, training>>

NextNet == NewMambaOut \/ ForwardFeatures

SpecNet == Init /\ [][NextNet]_vars

Next == NewBlock \/ NewStage \/ NewMambaOut \/ SetTraining
          \/ BlockForward \/ StageForward \/ ForwardFeatures

Spec == Init /\ [][Next]_vars

(***************************************************************************)
(* Properties of the MambaOut network (checked under SpecNet).             *)
(***************************************************************************)
NetBuilt == obj.kind = "net"
NetRaised == obj.kind = "raised" /\ obj.of = "net"
NetRan == out.kind = "net"
NetReturned == NetRan /\ out.res.ok
NumStages == Len(obj.call.depths)

RECURSIVE Pow2(_)
Pow2(k) == IF k <= 0 THEN 1 ELSE 2 * Pow2(k - 1)

\* cumulative stride at the output of stage i (i from 1)
StrideAt(i) == 4 * Pow2(i - 1)
InputDivisible == out.x[3] % StrideAt(NumStages) = 0 /\ out.x[4] % StrideAt(NumStages) = 0
ShapeAt(i) ==
    <<out.x[1], out.x[3] \div StrideAt(i), out.x[4] \div StrideAt(i), obj.call.dims[i]>>

\* C1: when the input height and width are divisible by 4 * 2^(n-1), the
\* tensor forward_features returns has dims[n] channels and height and width
\* divided by 4 * 2^(n-1): the stem divides them by 4, stage 1 keeps them and
\* every later stage halves them; a model whose first width is at least 2
\* returns on every such input.
C1_ForwardFeaturesShape ==
    (NetRan /\ InputDivisible) =>
        /\ obj.call.dims[1] >= 2 => out.res.ok
        /\ out.res.ok =>
             /\ out.res.val.shape = ShapeAt(NumStages)
             /\ out.res.val.after_stem = ShapeAt(1)
             /\ Len(out.res.val.after_stage) = NumStages
             /\ \A i \in 1 .. NumStages : out.res.val.after_stage[i] = ShapeAt(i)

C1_Witness ==
    /\ NetReturned
    /\ obj.call.depths = <<1, 1>>
    /\ obj.call.dims = <<8, 16>>
    /\ out.x = <<1, 3, 32, 32>>
    /\ out.res.val.after_stem = <<1, 8, 8, 8>>
    /\ out.res.val.after_stage[2] = <<1, 4, 4, 16>>
    /\ out.res.val.shape = <<1, 4, 4, 16>>

RECURSIVE Concat(_)
Concat(ss) == IF ss = <<>> THEN <<>> ELSE ss[1] \o Concat(Tail(ss))

TotalBlocks == SumSeq(obj.call.depths)
FlatSchedule == Concat(obj.self.dp_rates)
OffsetOf(i) == SumSeq(SubSeq(obj.call.depths, 1, i - 1))

\* what a block holding rate p has as its drop_path layer
HoldsRate(blk, p) ==
    IF RatPos(p) THEN blk.drop_path.kind = "DropPath" /\ RatEq(blk.drop_path.p, p)
    ELSE blk.drop_path.kind = "Identity"

\* the parts of C3 that do not depend on the number of blocks
ScheduleIsLinearAndThreaded ==
    LET flat == FlatSchedule
        total == TotalBlocks
        rate == obj.call.drop_path_rate
    IN  /\ Len(obj.self.dp_rates) = NumStages
        /\ \A i \in 1 .. NumStages : Len(obj.self.dp_rates[i]) = obj.call.depths[i]
        /\ Len(flat) = total
        /\ RatEq(flat[1], <<0, 1>>)
        /\ \A k \in 1 .. (total - 1) : RatLeq(flat[k], flat[k + 1])
        /\ \A k \in 1 .. total :
             total >= 2 =>
               RatEq(flat[k], <<rate[1] * (k - 1), rate[2] * (total - 1)>>)
        /\ \A i \in 1 .. NumStages : \A j \in 1 .. obj.call.depths[i] :
             /\ obj.self.dp_rates[i][j] = flat[OffsetOf(i) + j]
             /\ HoldsRate(obj.self.stages[i].blocks[j], flat[OffsetOf(i) + j])

\* C3 (as claimed): for every T >= 1 the schedule is T non-decreasing,
\* linearly spaced rates from 0 to R whose last value is R, and the per-stage
\* slices concatenate to it.
C3_ScheduleEndsAtMaxRate ==
    NetBuilt =>
        /\ ScheduleIsLinearAndThreaded
        /\ RatEq(FlatSchedule[TotalBlocks], obj.call.drop_path_rate)

\* C3 (amended): the schedule is T non-decreasing, linearly spaced rates
\* starting at 0; its last value is R when T >= 2 and it is the single rate 0
\* when T = 1; the per-stage slices concatenate to it, block j of stage i
\* holding entry depths[0] + ... + depths[i-1] + j.
C3_ScheduleEndsAtMaxRateFromTwoBlocks ==
    NetBuilt =>
        /\ ScheduleIsLinearAndThreaded
        /\ TotalBlocks >= 2 => RatEq(FlatSchedule[TotalBlocks], obj.call.drop_path_rate)
        /\ TotalBlocks = 1 => RatEq(FlatSchedule[1], <<0, 1>>)

C3_Witness ==
    /\ NetBuilt
    /\ NumStages >= 2
    /\ TotalBlocks >= 3
    /\ RatPos(obj.call.drop_path_rate)
    /\ obj.call.depths[1] = 2
    /\ RatPos(obj.self.dp_rates[2][1])
    /\ obj.self.stages[2].blocks[1].drop_path.kind = "DropPath"

C3_WitnessOneBlock ==
    /\ NetBuilt
    /\ TotalBlocks = 1
    /\ RatPos(obj.call.drop_path_rate)
    /\ obj.self.stages[1].blocks[1].drop_path.kind = "Identity"

\* the expansion ratio a caller of MambaOut asked for
RequestedExpansionRatio ==
    IF obj.call.expansion_ratio = None THEN Default_expansion_ratio
    ELSE TheValue(obj.call.expansion_ratio)

\* C6 (as claimed): the expansion ratio given to MambaOut is the one every
\* block of every stage uses for its hidden width, as the kernel size and
\* conv_ratio given to MambaOut are the ones every block uses.
C6_ExpansionRatioReachesEveryBlock ==
    NetBuilt =>
        \A i \in 1 .. NumStages : \A j \in 1 .. obj.call.depths[i] :
            LET blk == obj.self.stages[i].blocks[j]
            IN  /\ blk.conv.k = obj.call.kernel_size
                /\ blk.conv_channels = IntOfProduct(obj.call.conv_ratio, obj.call.dims[i])
                /\ blk.hidden = IntOfProduct(RequestedExpansionRatio, obj.call.dims[i])

\* C9: stage 0 has no downsample and dim_in = dim_out = dims[0], the stem's
\* width; every later stage i downsamples dims[i-1] -> dims[i]; each stage's
\* input dim is the previous stage's output dim; so a stage without
\* downsample has equal dims and the constructor's assertion never fails.
C9_StagesThreadDims ==
    /\ NetRaised => obj.err # "AssertionError"
    /\ NetBuilt =>
         /\ Len(obj.self.stages) = NumStages
         /\ obj.self.stages[1].downsample.kind = "Identity"
         /\ obj.self.stages[1].dim = obj.call.dims[1]
         /\ obj.self.stages[1].dim_out = obj.call.dims[1]
         /\ obj.self.stem.conv2.out_chs = obj.call.dims[1]
         /\ \A i \in 2 .. NumStages :
              /\ obj.self.stages[i].downsample.kind = "Downsample"
              /\ obj.self.stages[i].downsample.conv.in_chs = obj.call.dims[i - 1]
              /\ obj.self.stages[i].downsample.conv.out_chs = obj.call.dims[i]
              /\ obj.self.stages[i].dim = obj.self.stages[i - 1].dim_out
              /\ obj.self.stages[i].dim_out = obj.call.dims[i]
         /\ \A i \in 1 .. NumStages :
              /\ obj.self.stages[i].downsample.kind = "Identity"
                   => obj.self.stages[i].dim = obj.self.stages[i].dim_out
              /\ \A j \in 1 .. obj.call.depths[i] :
                   obj.self.stages[i].blocks[j].dim = obj.call.dims[i]

C9_Witness ==
    /\ NetBuilt
    /\ NumStages = 3
    /\ obj.call.dims = <<8, 16, 8>>
    /\ obj.self.stages[3].dim = 16
    /\ obj.self.stages[3].dim_out = 8

(***************************************************************************)
(* Properties of one MambaOutStage (checked under SpecStage).              *)
(***************************************************************************)
StageBuilt == obj.kind = "stage"
StageRaised == obj.kind = "raised" /\ obj.of = "stage"
StageCalled == StageBuilt \/ StageRaised
ExplicitDimOutDiffers == obj.call.dim_out # None /\ obj.call.dim_out # Some(obj.call.dim)
BlocksConstructible ==
    BlockConvChannels(obj.call.conv_ratio, DimOutOrDim(obj.call.dim_out, obj.call.dim)) > 0

\* C7: with downsample disabled, an explicit dim_out different from dim makes
\* the constructor fail on its assertion and no stage exists; with dim_out
\* equal to dim or not given the assertion passes, the stage is constructed
\* (its blocks being constructible) and its downsample step returns the
\* tensor unchanged.
C7_NoDownsampleNeedsEqualDims ==
    /\ (StageCalled /\ ~obj.call.downsample /\ ExplicitDimOutDiffers)
         => StageRaised /\ obj.err = "AssertionError"
    /\ (StageCalled /\ ~obj.call.downsample /\ ~ExplicitDimOutDiffers) =>
         /\ StageRaised => obj.err # "AssertionError" /\ ~BlocksConstructible
         /\ StageBuilt =>
              /\ obj.self.downsample.kind = "Identity"
              /\ obj.self.dim_out = obj.call.dim
              /\ \A k \in 1 .. Len(obj.self.blocks) : obj.self.blocks[k].dim = obj.call.dim
    /\ (StageBuilt /\ ~obj.call.downsample /\ out.kind = "stage") =>
         /\ StageDownsampleForward(obj.self, out.x) = Return(out.x)
         /\ out.res.ok => out.res.val.after_downsample = out.x

C7_Witness ==
    /\ StageBuilt
    /\ ~obj.call.downsample
    /\ obj.call.dim_out = None
    /\ out.kind = "stage"
    /\ out.res.ok
    /\ out.res.val.after_downsample = out.x

C7_WitnessRaised ==
    /\ StageRaised
    /\ ~obj.call.downsample
    /\ ExplicitDimOutDiffers
    /\ obj.err = "AssertionError"

(***************************************************************************)
(* Properties of one GatedConvBlock (checked under SpecBlock).             *)
(***************************************************************************)
BlockBuilt == obj.kind = "block"
BlockRaised == obj.kind = "raised" /\ obj.of = "block"
BlockRan == out.kind = "block"
BlockReturned == BlockRan /\ out.res.ok
OddKernel == obj.call.kernel_size % 2 = 1
TinyConvRatio == <<1, 100>>
UnitConvRatio == <<1, 1>>

\* The symbolic value of norm -> fc1 -> split -> conv -> gate -> fc2 -> ls
TransformOf(blk) ==
    LET core == <<"fc2", <<"mul", <<"act", "g">>, <<"cat", "i", <<"conv", "c">>>>>>>>
    IN  IF blk.ls = "LayerScale" THEN <<"ls", core>> ELSE core

InRange(k, r) == r[1] <= k /\ k < r[2]

\* C2 (as claimed): a block with conv_ratio very small but > 0, or equal to
\* 1.0, can be constructed for every dim >= 1, and evaluating it on an input
\* of its dim returns the input's shape.
C2_BlockKeepsShapeForTinyAndUnitConvRatio ==
    /\ BlockRaised => ~RatEq(obj.call.conv_ratio, TinyConvRatio)
                      /\ ~RatEq(obj.call.conv_ratio, UnitConvRatio)
    /\ (BlockRan /\ OddKernel /\ out.x[4] = obj.call.dim
          /\ RatLeq(UnitConvRatio, obj.call.expansion_ratio)
          /\ (RatEq(obj.call.conv_ratio, TinyConvRatio)
                \/ RatEq(obj.call.conv_ratio, UnitConvRatio)))
       => out.res.ok /\ out.res.val.shape = out.x

\* C4: in every block the split sizes sum to the 2*hidden channels of fc1; a
\* block with 0 < conv_channels <= hidden and an odd kernel evaluates on every
\* input of its dim, and whenever a block evaluates, the channels are cut into
\* gate [0, hidden), identity-part [hidden, 2*hidden - conv_channels) and
\* conv-part [2*hidden - conv_channels, 2*hidden), every channel lies in
\* exactly one slice, and fc2 is fed
\* act(gate) * cat(identity-part, conv(conv-part)), of hidden channels.
C4_SplitIsOrderedPartition ==
    /\ BlockBuilt =>
         /\ SumSeq(obj.self.split_indices) = 2 * obj.self.hidden
         /\ obj.self.fc1.out_f = 2 * obj.self.hidden
    /\ (BlockRan /\ OddKernel /\ out.x[4] = obj.call.dim
          /\ obj.self.conv_channels <= obj.self.hidden) => out.res.ok
    /\ BlockReturned =>
         LET h == obj.self.hidden
             cc == obj.self.conv_channels
             r == out.res.val
         IN  /\ r.fc1_out = 2 * h
             /\ r.g = <<0, h>>
             /\ r.i = <<h, 2 * h - cc>>
             /\ r.c = <<2 * h - cc, 2 * h>>
             /\ RangeLen(r.g) + RangeLen(r.i) + RangeLen(r.c) = 2 * h
             /\ \A k \in 0 .. (2 * h - 1) :
                    Cardinality({s \in {"g", "i", "c"} : InRange(k, r[s])}) = 1
             /\ r.gated = <<"mul", <<"act", "g">>, <<"cat", "i", <<"conv", "c">>>>>>
             /\ r.cat = h
             /\ r.fc2_in = h

C4_Witness ==
    /\ BlockReturned
    /\ RangeLen(out.res.val.i) > 0
    /\ RangeLen(out.res.val.c) > 0
    /\ RangeLen(out.res.val.i) # RangeLen(out.res.val.c)

\* C5 (as claimed): with conv_ratio = 1.0 the identity-part slice has size 0,
\* for every expansion_ratio, the default 8/3 included.
C5_UnitConvRatioEmptiesIdentityPart ==
    (BlockBuilt /\ RatEq(obj.call.conv_ratio, UnitConvRatio)
       /\ RatLeq(<<1, 1>>, obj.call.expansion_ratio))
    => obj.self.split_indices[2] = 0

\* C5 (amended): with conv_ratio = 1.0, conv_channels = dim and the
\* identity-part has hidden - dim channels: 0 exactly when hidden = dim, and
\* more than 0 for expansion_ratio = 8/3.  With expansion_ratio >= 1 and an odd
\* kernel the block evaluates, empty identity-part or not, to its input's shape.
C5_UnitConvRatioIdentityPartIsHiddenMinusDim ==
    /\ (BlockBuilt /\ RatEq(obj.call.conv_ratio, UnitConvRatio)) =>
         /\ obj.self.conv_channels = obj.call.dim
         /\ obj.self.split_indices[2] = obj.self.hidden - obj.call.dim
         /\ RatEq(obj.call.expansion_ratio, <<1, 1>>) => obj.self.split_indices[2] = 0
         /\ RatEq(obj.call.expansion_ratio, Default_expansion_ratio)
              => obj.self.split_indices[2] > 0
    /\ (BlockRan /\ RatEq(obj.call.conv_ratio, UnitConvRatio) /\ OddKernel
          /\ RatLeq(<<1, 1>>, obj.call.expansion_ratio) /\ out.x[4] = obj.call.dim) =>
         /\ out.res.ok
         /\ out.res.val.shape = out.x
         /\ RangeLen(out.res.val.i) = obj.self.hidden - obj.call.dim
         /\ RangeLen(out.res.val.c) = obj.call.dim
         /\ out.res.val.cat = obj.self.hidden

C5_Witness ==
    /\ BlockReturned
    /\ RatEq(obj.call.conv_ratio, UnitConvRatio)
    /\ RangeLen(out.res.val.i) = 0
    /\ out.res.val.cat = obj.call.dim
    /\ out.res.val.shape = out.x

\* C8: a block whose drop-path rate is 0 returns shortcut + transform(x), with
\* no scaling and no dropping, in training mode as in evaluation mode, and a
\* block with rate > 0 does so in evaluation mode.
C8_NoDropPathIsPlainResidual ==
    (BlockReturned /\ (~RatPos(obj.call.drop_path) \/ ~training))
    => out.res.val.expr = <<"add", TransformOf(obj.self), "x">>

C8_Witness ==
    /\ BlockReturned
    /\ training
    /\ ~RatPos(obj.call.drop_path)
    /\ out.mask = "drop"
    /\ out.res.val.expr = <<"add", TransformOf(obj.self), "x">>

C8_WitnessEval ==
    /\ BlockReturned
    /\ ~training
    /\ RatPos(obj.call.drop_path)
    /\ out.mask = "drop"

\* C10 (as claimed): hidden = round(expansion_ratio * dim) and
\* conv_channels = round(conv_ratio * dim), rounding to the nearest integer.
C10_WidthsAreRounded ==
    BlockBuilt =>
        /\ obj.self.hidden = RoundOfProduct(obj.call.expansion_ratio, obj.call.dim)
        /\ obj.self.conv_channels = RoundOfProduct(obj.call.conv_ratio, obj.call.dim)

\* C10 (amended): hidden and conv_channels are expansion_ratio * dim and
\* conv_ratio * dim truncated to an integer (the largest integer not above
\* the product), and the split sizes are (hidden, hidden - conv_channels,
\* conv_channels).
IsFloorOf(n, ratio, dim) ==
    /\ n * ratio[2] <= ratio[1] * dim
    /\ ratio[1] * dim < (n + 1) * ratio[2]

C10_WidthsAreTruncated ==
    BlockBuilt =>
        /\ IsFloorOf(obj.self.hidden, obj.call.expansion_ratio, obj.call.dim)
        /\ IsFloorOf(obj.self.conv_channels, obj.call.conv_ratio, obj.call.dim)
        /\ obj.self.split_indices
             = <<obj.self.hidden, obj.self.hidden - obj.self.conv_channels,
                 obj.self.conv_channels>>

C10_Witness ==
    /\ BlockBuilt
    /\ obj.self.hidden # RoundOfProduct(obj.call.expansion_ratio, obj.call.dim)
    /\ obj.self.conv_channels # RoundOfProduct(obj.call.conv_ratio, obj.call.dim)

====
